---- MODULE Spec2Model ----
(***************************************************************************)
(* The dispatcher of load-balancer/src: the backend pool (LoadBalancer,    *)
(* Server, BalancingAlgorithm) and the two request handlers of main.rs     *)
(* (change_algo, forward_request) running as concurrent tasks that share   *)
(* the pool behind one RwLock.                                             *)
(*                                                                         *)
(* Two specifications are given.                                           *)
(*   Spec      the dispatcher process: client connections whose requests   *)
(*             go through handle_request, one step per await point.        *)
(*   SpecPool  the LoadBalancer object alone, driven by every sequence of   *)
(*             calls of its public methods (next_server, set_algorithm,    *)
(*             get_server_by_address + decrement_connections).  Every      *)
(*             behaviour of the pool under Spec is one of SpecPool.         *)
(* Time is counted in ticks of 1/TicksPerSecond second; the clock is read  *)
(* by Utc::now() and does not run backwards in the model.                  *)
(***************************************************************************)
EXTENDS Integers, Sequences, FiniteSets, TLC

\* ------------------------------------------------------------------ bounds

\* client connections the dispatcher serves at the same time
NumConnections == 2
\* a pick is only started while the counters add up to less than this
MaxInFlight == 3
\* clock resolution: ticks per second
TicksPerSecond == 2
\* the clock of Spec stops after this many seconds
MaxSeconds == 5
\* the clock of SpecPool stops after this many seconds
MaxPoolSeconds == 10
\* the counters of SpecPool never add up to more than this
MaxPoolInFlight == 5
\* bits of the machine word standing for u64 in the worker
WordBits == 16
\* requests the serial client sends
MaxServed == 7
\* the counter of backend 0 when least_connections is set in SpecPinned
PinnedLoad == 5
\* requests in flight in SpecOperator
MaxOperatorInFlight == 4

\* ------------------------------------------------------ program constants

MIN_SECONDS_BETWEEN_ALGO_CHANGES == 5

ROUND_ROBIN == "round_robin"
LEAST_CONNECTIONS == "least_connections"

\* the variants of enum BalancingAlgorithm
RoundRobin == "RoundRobin"
LeastConnections == "LeastConnections"
BalancingAlgorithm == {RoundRobin, LeastConnections}

\* the fixed fleet of create_load_balancer
FleetAddresses == <<"127.0.0.1:3000", "127.0.0.1:3001", "127.0.0.1:3002">>

\* ------------------------------------------------------------ server.rs

Server_new(address) == [address |-> address, connections |-> 0]

get_address(s) == s.address

get_connections(s) == s.connections

increment_connections(s) == [s EXCEPT !.connections = @ + 1]

decrement_connections_unguarded(s) == [s EXCEPT !.connections = @ - 1]

decrement_connections(s) ==
    IF s.connections > 0 THEN [s EXCEPT !.connections = @ - 1] ELSE s

\* --------------------------------------------------- balancing_algorithm.rs

\* TryFrom<&str>: Ok(variant) or Err(ConversionError)
try_from_accept_any(value) ==
    IF value = LEAST_CONNECTIONS
    THEN [ok |-> TRUE, algo |-> LeastConnections]
    ELSE [ok |-> TRUE, algo |-> RoundRobin]

try_from(value) ==
    CASE value = ROUND_ROBIN -> [ok |-> TRUE, algo |-> RoundRobin]
      [] value = LEAST_CONNECTIONS -> [ok |-> TRUE, algo |-> LeastConnections]
      [] OTHER -> [ok |-> FALSE, algo |-> RoundRobin]

\* Display for BalancingAlgorithm
fmt(algo) == IF algo = RoundRobin THEN ROUND_ROBIN ELSE LEAST_CONNECTIONS

\* ------------------------------------------------------- load_balancer.rs

\* Iterator::min_by_key over servers.iter().enumerate(): the 0-based index of
\* the first server with the smallest key (a later server replaces the
\* candidate only when its key is strictly smaller).
RECURSIVE min_by_key_from(_, _, _)
min_by_key_from(servers, i, best) ==
    IF i > Len(servers) THEN best
    ELSE min_by_key_from(servers, i + 1,
            IF get_connections(servers[i]) < get_connections(servers[best])
            THEN i ELSE best)

min_by_key_last(servers) ==
    LET RECURSIVE go(_, _)
        go(i, best) ==
            IF i > Len(servers) THEN best
            ELSE go(i + 1,
                    IF get_connections(servers[i]) <= get_connections(servers[best])
                    THEN i ELSE best)
    IN go(2, 1) - 1

min_by_key(servers) == min_by_key_from(servers, 2, 1) - 1

\* Iterator::max_by_key: the last server with the largest key (a later
\* server replaces the candidate when its key is greater or equal).
RECURSIVE max_by_key_from(_, _, _)
max_by_key_from(servers, i, best) ==
    IF i > Len(servers) THEN best
    ELSE max_by_key_from(servers, i + 1,
            IF get_connections(servers[i]) >= get_connections(servers[best])
            THEN i ELSE best)

max_by_key(servers) == max_by_key_from(servers, 2, 1) - 1

\* chrono's Duration::num_seconds: whole seconds, truncated towards zero
num_seconds(duration) ==
    IF duration >= 0
    THEN duration \div TicksPerSecond
    ELSE -((-duration) \div TicksPerSecond)

\* LoadBalancer::new on a non-empty list; `t` is Utc::now()
LoadBalancer_new(servers, t) ==
    [servers |-> servers,
     current_server |-> 0,
     algorithm |-> RoundRobin,
     last_check |-> t]

set_algorithm_ignored(self, algorithm) == self

set_algorithm_resets_cursor(self, algorithm) ==
    [self EXCEPT !.algorithm = algorithm, !.current_server = 0]

set_algorithm(self, algorithm) == [self EXCEPT !.algorithm = algorithm]

recommended_algo_spread_of_three(self) ==
    IF self.algorithm = RoundRobin
    THEN LET max_connections ==
                 get_connections(self.servers[max_by_key(self.servers) + 1])
             min_connections ==
                 get_connections(self.servers[min_by_key(self.servers) + 1])
         IN IF max_connections - min_connections >= 3
            THEN LeastConnections ELSE self.algorithm
    ELSE LET new_server == min_by_key(self.servers)
         IN IF new_server = self.current_server
            THEN RoundRobin ELSE self.algorithm

\* the recommendation computed by check_conditions_and_set_best_algo
recommended_algo(self) ==
    IF self.algorithm = RoundRobin
    THEN LET max_connections ==
                 get_connections(self.servers[max_by_key(self.servers) + 1])
             min_connections ==
                 get_connections(self.servers[min_by_key(self.servers) + 1])
         IN IF max_connections - min_connections > 3
            THEN LeastConnections ELSE self.algorithm
    ELSE LET new_server == min_by_key(self.servers)
         IN IF new_server = self.current_server
            THEN RoundRobin ELSE self.algorithm

check_conditions_no_cooldown(self, t) ==
    IF Len(self.servers) = 1 THEN self
    ELSE IF recommended_algo(self) = self.algorithm THEN self
    ELSE [set_algorithm(self, recommended_algo(self)) EXCEPT !.last_check = t]

check_conditions_stamps_every_check(self, t) ==
    IF Len(self.servers) = 1 THEN self
    ELSE LET duration == t - self.last_check
         IN IF num_seconds(duration) < MIN_SECONDS_BETWEEN_ALGO_CHANGES THEN self
            ELSE [set_algorithm(self, recommended_algo(self))
                    EXCEPT !.last_check = t]

\* `t` is the Utc::now() the method reads
check_conditions_and_set_best_algo(self, t) ==
    IF Len(self.servers) = 1 THEN self
    ELSE LET duration == t - self.last_check
         IN IF num_seconds(duration) < MIN_SECONDS_BETWEEN_ALGO_CHANGES THEN self
            ELSE IF recommended_algo(self) = self.algorithm THEN self
            ELSE [set_algorithm(self, recommended_algo(self))
                    EXCEPT !.last_check = t]

next_server_select_stuck(self) ==
    IF self.algorithm = RoundRobin
    THEN [lb |-> [self EXCEPT
                    !.servers[self.current_server + 1] =
                        increment_connections(@)],
          server |-> self.current_server]
    ELSE LET index == min_by_key(self.servers)
         IN [lb |-> [self EXCEPT
                        !.current_server = index,
                        !.servers[index + 1] = increment_connections(@)],
             server |-> index]

next_server_select_round_robin(self) ==
    LET servers_count == Len(self.servers)
    IN [lb |-> [self EXCEPT
                   !.current_server = (self.current_server + 1) % servers_count,
                   !.servers[self.current_server + 1] = increment_connections(@)],
        server |-> self.current_server]

next_server_select_no_wrap(self) ==
    IF self.algorithm = RoundRobin
    THEN [lb |-> [self EXCEPT
                    !.current_server = self.current_server + 1,
                    !.servers[((self.current_server) % Len(self.servers)) + 1] =
                        increment_connections(@)],
          server |-> self.current_server % Len(self.servers)]
    ELSE LET index == min_by_key(self.servers)
         IN [lb |-> [self EXCEPT
                        !.current_server = index,
                        !.servers[index + 1] = increment_connections(@)],
             server |-> index]

\* the match of next_server, after the supervisor has run: the pool as the
\* method leaves it and the index of the server it returns
next_server_select(self) ==
    IF self.algorithm = RoundRobin
    THEN LET servers_count == Len(self.servers)
         IN [lb |-> [self EXCEPT
                        !.current_server = (self.current_server + 1) % servers_count,
                        !.servers[self.current_server + 1] =
                            increment_connections(@)],
             server |-> self.current_server]
    ELSE LET index == min_by_key(self.servers)
         IN [lb |-> [self EXCEPT
                        !.current_server = index,
                        !.servers[index + 1] = increment_connections(@)],
             server |-> index]

next_server(self, t) ==
    next_server_select(check_conditions_and_set_best_algo(self, t))

get_server_by_address_first(self, address) ==
    IF Len(self.servers) = 0 THEN 0 ELSE 1

\* get_server_by_address: the 1-based position of the first server with
\* that address, 0 for None
get_server_by_address(self, address) ==
    LET found == {i \in 1..Len(self.servers) :
                    get_address(self.servers[i]) = address}
    IN IF found = {} THEN 0
       ELSE CHOOSE i \in found : \A j \in found : i <= j


\* -------------------------------------------------------------- main.rs

\* RwLock::write().await completes when no guard of the lock exists; `holder`
\* is the task whose guard exists, Unlocked when there is none
\* nobody holds the write lock
Unlocked == 0

lock_free_always(holder) == TRUE

lock_free(holder) == holder = Unlocked

\* the end of the block that took the lock: the guard of `task` is dropped
guard_kept(task) == task

guard_drop(task) == Unlocked

\* create_load_balancer; `t` is the Utc::now() read by LoadBalancer::new
create_load_balancer(t) ==
    LoadBalancer_new([i \in 1..Len(FleetAddresses) |-> Server_new(FleetAddresses[i])], t)

handle_request_any_method(method, path) ==
    IF path = "/algo" THEN "change_algo" ELSE "forward_request"

\* handle_request: the handler a request is given to
handle_request(method, path) ==
    IF method = "POST" /\ path = "/algo" THEN "change_algo" ELSE "forward_request"

\* What the client of a connection gets for a request.  A handler that
\* returns Err or panics writes no response: the connection is closed.
NoResponse == [kind |-> "none", status |-> 0, headers |-> {}]
HandlerErr == [kind |-> "err", status |-> 0, headers |-> {}]
HandlerPanic == [kind |-> "panic", status |-> 0, headers |-> {}]
Response(status, headers) == [kind |-> "response", status |-> status, headers |-> headers]

TextPlain == {<<"content-type", "text/plain">>}

\* Response::new(body): status 200 OK and an empty header map
Response_new == Response(200, {})

\* the value of data.get("algo").and_then(|v| v.as_str()) for a parsed body
algo_as_str(body) ==
    IF body.kind = "object" /\ body.algo.type = "string"
    THEN [some |-> TRUE, str |-> body.algo.str]
    ELSE [some |-> FALSE, str |-> ""]

\* ---------------------------------------------------- worker-server main.rs

\* u64 is modelled with WordBits bits: U64_MAX stands for u64::MAX
U64_MAX == 2^WordBits - 1

DEFAULT_MIN_DURATION == 10
DEFAULT_MAX_DURATION == 10
\* f64 values are [nan, tenths]: a number is kept in tenths
F64(tenths) == [nan |-> FALSE, tenths |-> tenths]
NaN == [nan |-> TRUE, tenths |-> 0]
DEFAULT_ERROR_RATE == F64(0)

\* impl Default for GlobalState
GlobalState_default ==
    [min_duration |-> DEFAULT_MIN_DURATION,
     max_duration |-> DEFAULT_MAX_DURATION,
     error_rate |-> DEFAULT_ERROR_RATE]

\* Texts are sequences of one-character strings.
DigitValue ==
    ("0" :> 0) @@ ("1" :> 1) @@ ("2" :> 2) @@ ("3" :> 3) @@ ("4" :> 4) @@
    ("5" :> 5) @@ ("6" :> 6) @@ ("7" :> 7) @@ ("8" :> 8) @@ ("9" :> 9)

ParseErr == [ok |-> FALSE, value |-> 0]
ParseOk(v) == [ok |-> TRUE, value |-> v]

\* the digits of s from position i on, accumulated into acc; a value above
\* `limit` is an overflow
RECURSIVE parse_digits(_, _, _, _)
parse_digits(s, i, acc, limit) ==
    IF i > Len(s) THEN ParseOk(acc)
    ELSE IF s[i] \notin DOMAIN DigitValue THEN ParseErr
    ELSE LET v == acc * 10 + DigitValue[s[i]]
         IN IF v > limit THEN ParseErr ELSE parse_digits(s, i + 1, v, limit)

\* str.parse::<u64>(): an optional "+", then one or more decimal digits whose
\* value fits in u64
parse_u64(s) ==
    LET digits == IF Len(s) > 0 /\ s[1] = "+" THEN Tail(s) ELSE s
    IN IF digits = <<>> THEN ParseErr ELSE parse_digits(digits, 1, 0, U64_MAX)

\* u64's Display: the decimal digits of n
RECURSIVE to_string(_)
to_string(n) ==
    LET last == CHOOSE c \in DOMAIN DigitValue : DigitValue[c] = n % 10
    IN IF n < 10 THEN <<last>> ELSE Append(to_string(n \div 10), last)

\* str.parse::<f64>() on the texts used here: "NaN", or an optional "-", one
\* or more digits, "." and one digit; anything else is an error
parse_f64(s) ==
    IF s = <<"N", "a", "N">> THEN ParseOk(NaN)
    ELSE LET neg == Len(s) > 0 /\ s[1] = "-"
             body == IF neg THEN Tail(s) ELSE s
             n == Len(body)
         IN IF n < 3 THEN ParseErr
            ELSE IF body[n - 1] # "." THEN ParseErr
            ELSE LET int == parse_digits(SubSeq(body, 1, n - 2), 1, 0, 1000)
                     frac == parse_digits(SubSeq(body, n, n), 1, 0, 9)
                 IN IF int.ok /\ frac.ok
                    THEN ParseOk(F64((IF neg THEN -1 ELSE 1) * (int.value * 10 + frac.value)))
                    ELSE ParseErr

\* u64::max
max_u64(a, b) == IF a >= b THEN a ELSE b

\* u64::clamp(lo, hi)
clamp_u64(v, lo, hi) == IF v < lo THEN lo ELSE IF v > hi THEN hi ELSE v

\* f64::clamp(0.0, 1.0): NaN stays NaN
clamp_f64(v) ==
    IF v.nan THEN v
    ELSE IF v.tenths < 0 THEN F64(0)
    ELSE IF v.tenths > 10 THEN F64(10)
    ELSE v

\* data.get(key).and_then(|v| v.as_str()) for a parsed body
field_as_str(body, key) ==
    IF body.kind = "object" /\ body[key].type = "string"
    THEN [some |-> TRUE, str |-> body[key].str]
    ELSE [some |-> FALSE, str |-> <<>>]

unwrap_or(parsed, default) == IF parsed.ok THEN parsed.value ELSE default

\* setup, lines 128-132
setup_min_duration(data) ==
    LET str == field_as_str(data, "min_duration")
    IN IF str.some THEN unwrap_or(parse_u64(str.str), DEFAULT_MIN_DURATION)
       ELSE DEFAULT_MIN_DURATION

setup_max_duration_floor_min(data, min_duration) ==
    LET str == field_as_str(data, "max_duration")
    IN max_u64(IF str.some THEN unwrap_or(parse_u64(str.str), min_duration)
               ELSE min_duration,
               min_duration)

\* setup, lines 134-139
setup_max_duration(data, min_duration) ==
    LET str == field_as_str(data, "max_duration")
    IN max_u64(IF str.some THEN unwrap_or(parse_u64(str.str), min_duration)
               ELSE min_duration,
               DEFAULT_MAX_DURATION)

\* setup, lines 141-146
setup_error_rate(data) ==
    LET str == field_as_str(data, "error_rate")
    IN clamp_f64(IF str.some THEN unwrap_or(parse_f64(str.str), DEFAULT_ERROR_RATE)
                 ELSE DEFAULT_ERROR_RATE)

\* setup, lines 128-153: the record the write lock section stores
setup_record(data) ==
    LET min_duration == setup_min_duration(data)
    IN [min_duration |-> min_duration,
        max_duration |-> setup_max_duration(data, min_duration),
        error_rate |-> setup_error_rate(data)]

\* work, lines 174-178
work_multiplier(data) ==
    LET str == field_as_str(data, "multiplier")
    IN IF str.some THEN clamp_u64(unwrap_or(parse_u64(str.str), 1), 1, 10) ELSE 1

\* gen_range(lo..=hi): panics on an empty range; of the values it can draw,
\* the two ends and the middle are followed
Panic == [panic |-> TRUE, value |-> 0]
Value(v) == [panic |-> FALSE, value |-> v]
gen_range(lo, hi) ==
    IF lo > hi THEN {Panic} ELSE {Value(lo), Value((lo + hi) \div 2), Value(hi)}

\* multiplier * random_duration in u64: on overflow the build with overflow
\* checks panics, the build without them wraps
mul_u64(a, b) ==
    IF a * b <= U64_MAX THEN {Value(a * b)}
    ELSE {Panic, Value((a * b) % (U64_MAX + 1))}

\* gen_bool(p): panics unless 0 <= p <= 1 (NaN included); p = 0 never gives
\* true, p = 1 always does
gen_bool(p) ==
    IF p.nan \/ p.tenths < 0 \/ p.tenths > 10 THEN {Panic}
    ELSE IF p.tenths = 0 THEN {Value(FALSE)}
    ELSE IF p.tenths = 10 THEN {Value(TRUE)}
    ELSE {Value(TRUE), Value(FALSE)}

\* what the client of the worker gets: a response, or nothing when the
\* handler returned Err or panicked
WorkerNoResponse == [kind |-> "none", status |-> 0, body |-> ""]
WorkerErr == [kind |-> "err", status |-> 0, body |-> ""]
WorkerPanic == [kind |-> "panic", status |-> 0, body |-> ""]
WorkerResponse(status, body) == [kind |-> "response", status |-> status, body |-> body]

\* ----------------------------------------------------------------- inputs

\* requests of client connections (all of them are forwarded)
ClientRequests == {<<"POST", "/work">>, <<"GET", "/algo">>, <<"GET", "/health">>}

\* bodies of POST /algo: not JSON, JSON that is no object, an object without
\* "algo", with a non-string "algo", with a string "algo"
AlgoStrings == {ROUND_ROBIN, LEAST_CONNECTIONS, "bogus", "Round_Robin"}
JsonMissing == [type |-> "missing", str |-> ""]
JsonNumber == [type |-> "number", str |-> ""]
JsonString(s) == [type |-> "string", str |-> s]
AlgoBodies ==
    {[kind |-> "not_json", algo |-> JsonMissing],
     [kind |-> "non_object", algo |-> JsonMissing],
     [kind |-> "object", algo |-> JsonMissing],
     [kind |-> "object", algo |-> JsonNumber]}
    \cup {[kind |-> "object", algo |-> JsonString(s)] : s \in AlgoStrings}

\* what a worker answers: POST /work gives 200 or 500, both text/plain
WorkerResponses == {Response(200, TextPlain), Response(500, TextPlain)}

\* an address that is not in the pool
UnknownAddress == "10.0.0.1:80"

\* fields of the bodies the worker gets: absent, not a string, a string
TextMissing == [type |-> "missing", str |-> <<>>]
TextNumber == [type |-> "number", str |-> <<>>]
TextString(s) == [type |-> "string", str |-> s]

\* texts of min_duration and max_duration: two ordinary values, u64::MAX,
\* a value that does not fit in u64
DurationTexts ==
    {to_string(100), to_string(50), to_string(U64_MAX), Append(to_string(U64_MAX), "0")}
DurationFields == {TextMissing} \cup {TextString(s) : s \in DurationTexts}

\* texts of error_rate
RateTexts == {<<"0", ".", "5">>, <<"2", ".", "0">>, <<"N", "a", "N">>, <<"x">>}
RateFields == {TextMissing} \cup {TextString(s) : s \in RateTexts}

\* bodies of POST /setup: not JSON, JSON that is no object, objects
SetupBodies ==
    {[kind |-> k, min_duration |-> TextMissing, max_duration |-> TextMissing,
      error_rate |-> TextMissing] : k \in {"not_json", "non_object"}}
    \cup {[kind |-> "object", min_duration |-> a, max_duration |-> b, error_rate |-> r] :
            a \in DurationFields, b \in DurationFields, r \in RateFields}

\* texts of multiplier
MultiplierTexts == {to_string(0), to_string(3), to_string(11), <<"-", "2">>}
MultiplierFields == {TextMissing, TextNumber} \cup {TextString(s) : s \in MultiplierTexts}

\* bodies of POST /work
WorkBodies ==
    {[kind |-> k, multiplier |-> TextMissing] : k \in {"not_json", "non_object"}}
    \cup {[kind |-> "object", multiplier |-> m] : m \in MultiplierFields}

\* ------------------------------------------------------------------ state

VARIABLES
    lb,           \* the LoadBalancer behind Arc<RwLock<..>>
    now,          \* the clock Utc::now() reads, in ticks
    pc,           \* per client connection: the await forward_request is at
    worker_addr,  \* per client connection: the local worker_addr
    worker_res,   \* per client connection: the local worker_res (its head)
    result,       \* per client connection: what the client got last
    decrements,   \* per client connection: decrements done for its request
    admin,        \* the connection that sends POST /algo: change_algo's task
    operator,     \* the algorithm the last valid POST /algo wrote, and whether
                  \* the supervisor has replaced it since
    call,         \* SpecPool: the last method called on the pool and what it
                  \* returned (release: what get_server_by_address found)
    rr_run,       \* SpecPool: the current run of round-robin picks in cooldown
    sup_times,    \* SpecPool: construction and supervisor-change times
    GLOBAL_STATE, \* the worker's GlobalState behind Arc<RwLock<..>>
    work,         \* the worker's connection that sends POST /work: work's task,
                  \* with the record its first read saw
    setup_res,    \* what the client of the last POST /setup got
    served,       \* SpecSerial: the requests forwarded so far
    override,     \* SpecOperator: the algorithm the last set_algorithm wrote,
                  \* when, and the pool's last_check at that time
    returned,     \* SpecOperator: the index next_server returned last, -1
                  \* before the first call
    pin,          \* SpecPinned: the cursor when least_connections was set and
                  \* whether the first pick came after the cooldown
    lock,         \* SpecLock: the task that holds the write lock of the pool
    setup_body,   \* SpecSetup: the body of the last POST /setup
    forward,      \* SpecHeaders: the headers of a client request and of the
                  \* worker request built from it
    route         \* SpecRoute: the last request, the handler it was given
                  \* to and what that handler did

vars == <<lb, now, pc, worker_addr, worker_res, result, decrements, admin,
          operator, call, rr_run, sup_times, GLOBAL_STATE, work, setup_res,
          served, override, returned, pin, lock, setup_body, forward, route>>

dispatcher_vars == <<pc, worker_addr, worker_res, result, decrements, admin, operator>>
pool_history == <<call, rr_run, sup_times>>
worker_vars == <<GLOBAL_STATE, work, setup_res>>
scenario_vars == <<served, override, returned, pin>>
extra_vars == <<lock, setup_body, forward, route>>
other_vars == <<worker_vars, scenario_vars, extra_vars>>

Connections == 1..NumConnections

RECURSIVE SumConnections(_, _)
SumConnections(servers, i) ==
    IF i > Len(servers) THEN 0
    ELSE get_connections(servers[i]) + SumConnections(servers, i + 1)

TotalConnections(self) == SumConnections(self.servers, 1)

MaxTime == MaxSeconds * TicksPerSecond
MaxPoolTime == MaxPoolSeconds * TicksPerSecond

NoOperator == [algo |-> "none", superseded |-> FALSE]
NoCall == [op |-> "new", ret |-> ""]

\* the worker before any request
NoWork ==
    [pc |-> "idle", multiplier |-> 0, first |-> GlobalState_default,
     random_duration |-> 0, duration |-> 0, status |-> 0, res |-> WorkerNoResponse]

WorkerInit ==
    /\ GLOBAL_STATE = GlobalState_default
    /\ work = NoWork
    /\ setup_res = WorkerNoResponse

NoOverride == [algo |-> "none", at |-> 0, last_check |-> 0]
NoPin == [cursor |-> 0, first |-> "none"]

\* the task of the connection that sends POST /algo
AdminTask == NumConnections + 1

NoSetupBody ==
    [kind |-> "none", min_duration |-> TextMissing, max_duration |-> TextMissing,
     error_rate |-> TextMissing]
NoForward == [lines |-> <<>>, headers |-> <<>>, worker_headers |-> <<>>, built |-> FALSE]
NoRoute ==
    [pc |-> "idle", method |-> "", path |-> "", handler |-> "", before |-> RoundRobin,
     picks |-> 0, attempts |-> 0, addr |-> ""]

ExtraInit ==
    /\ lock = Unlocked
    /\ setup_body = NoSetupBody
    /\ forward = NoForward
    /\ route = NoRoute

ScenarioInit ==
    /\ served = 0
    /\ override = NoOverride
    /\ returned = -1
    /\ pin = NoPin

\* --------------------------------------------------- Spec: the dispatcher

Init ==
    /\ now = 0
    /\ lb = create_load_balancer(0)
    /\ pc = [c \in Connections |-> "idle"]
    /\ worker_addr = [c \in Connections |-> ""]
    /\ worker_res = [c \in Connections |-> NoResponse]
    /\ result = [c \in Connections |-> NoResponse]
    /\ decrements = [c \in Connections |-> 0]
    /\ admin = [pc |-> "idle", algo |-> RoundRobin, result |-> NoResponse]
    /\ operator = NoOperator
    /\ call = NoCall
    /\ rr_run = <<>>
    /\ sup_times = <<0>>
    /\ WorkerInit
    /\ ScenarioInit
    /\ ExtraInit

\* the clock advances; the dispatcher's clock is followed second by second
Tick ==
    /\ now + TicksPerSecond <= MaxTime
    /\ now' = now + TicksPerSecond
    /\ UNCHANGED <<lb, dispatcher_vars, pool_history, other_vars>>

\* forward_request, lines 130-157: the write lock is granted, next_server
\* picks, the worker request is built and the connect is started
ForwardPick(c) ==
    /\ pc[c] = "idle"
    /\ TotalConnections(lb) < MaxInFlight
    /\ \E req \in ClientRequests : handle_request(req[1], req[2]) = "forward_request"
    /\ LET picked == next_server(lb, now)
       IN /\ lb' = picked.lb
          /\ worker_addr' = [worker_addr EXCEPT
                               ![c] = get_address(picked.lb.servers[picked.server + 1])]
          /\ operator' = IF operator.algo # "none"
                            /\ check_conditions_and_set_best_algo(lb, now).algorithm
                                 # lb.algorithm
                         THEN [operator EXCEPT !.superseded = TRUE]
                         ELSE operator
    /\ pc' = [pc EXCEPT ![c] = "connect"]
    /\ result' = [result EXCEPT ![c] = NoResponse]
    /\ decrements' = [decrements EXCEPT ![c] = 0]
    /\ UNCHANGED <<now, worker_res, admin, pool_history, other_vars>>

\* the task of connection c ends with outcome r
Terminate(c, r) ==
    /\ pc' = [pc EXCEPT ![c] = "idle"]
    /\ result' = [result EXCEPT ![c] = r]
    /\ worker_addr' = [worker_addr EXCEPT ![c] = ""]
    /\ worker_res' = [worker_res EXCEPT ![c] = NoResponse]

\* line 159: TcpStream::connect succeeds, the handshake is started
ConnectOk(c) ==
    /\ pc[c] = "connect"
    /\ pc' = [pc EXCEPT ![c] = "handshake"]
    /\ UNCHANGED <<lb, now, worker_addr, worker_res, result, decrements, admin,
                   operator, pool_history, other_vars>>

\* line 159: the connect fails and .unwrap() panics
ConnectRefused(c) ==
    /\ pc[c] = "connect"
    /\ Terminate(c, HandlerPanic)
    /\ UNCHANGED <<lb, now, decrements, admin, operator, pool_history, other_vars>>

\* lines 162-171: the handshake succeeds, the request is sent
HandshakeOk(c) ==
    /\ pc[c] = "handshake"
    /\ pc' = [pc EXCEPT ![c] = "send"]
    /\ UNCHANGED <<lb, now, worker_addr, worker_res, result, decrements, admin,
                   operator, pool_history, other_vars>>

\* line 162: the handshake fails and `?` returns the error
HandshakeErr(c) ==
    /\ pc[c] = "handshake"
    /\ Terminate(c, HandlerErr)
    /\ UNCHANGED <<lb, now, decrements, admin, operator, pool_history, other_vars>>

\* lines 171-172: the worker's response head arrives; the write lock is asked for
SendOk(c) ==
    /\ pc[c] = "send"
    /\ \E res \in WorkerResponses : worker_res' = [worker_res EXCEPT ![c] = res]
    /\ pc' = [pc EXCEPT ![c] = "release"]
    /\ UNCHANGED <<lb, now, worker_addr, result, decrements, admin, operator,
                   pool_history, other_vars>>

\* line 171: send_request fails and `?` returns the error
SendErr(c) ==
    /\ pc[c] = "send"
    /\ Terminate(c, HandlerErr)
    /\ UNCHANGED <<lb, now, decrements, admin, operator, pool_history, other_vars>>

\* lines 174-180: the write lock is granted, the counter of the server with
\* the address is decremented, Response::new(res_body) is returned
Release(c) ==
    /\ pc[c] = "release"
    /\ LET found == get_server_by_address(lb, worker_addr[c])
       IN IF found = 0
          THEN /\ Terminate(c, HandlerPanic)
               /\ UNCHANGED <<lb, decrements>>
          ELSE /\ lb' = [lb EXCEPT !.servers[found] = decrement_connections(@)]
               /\ decrements' = [decrements EXCEPT ![c] = @ + 1]
               /\ Terminate(c, Response_new)
    /\ UNCHANGED <<now, admin, operator, pool_history, other_vars>>

\* change_algo, lines 85-93 and 104-122: the body is read and parsed; a valid
\* algorithm is written under the write lock, anything else is answered
ChangeAlgo(body) ==
    /\ admin.pc = "idle"
    /\ handle_request("POST", "/algo") = "change_algo"
    /\ IF body.kind = "not_json"
       THEN /\ admin' = [admin EXCEPT !.result = HandlerErr]
            /\ UNCHANGED <<lb, operator>>
       ELSE IF ~algo_as_str(body).some
       THEN /\ admin' = [admin EXCEPT !.result = Response(400, TextPlain)]
            /\ UNCHANGED <<lb, operator>>
       ELSE IF ~try_from(algo_as_str(body).str).ok
       THEN /\ admin' = [admin EXCEPT !.result = Response(400, TextPlain)]
            /\ UNCHANGED <<lb, operator>>
       ELSE /\ lb' = set_algorithm(lb, try_from(algo_as_str(body).str).algo)
            /\ admin' = [pc |-> "respond",
                         algo |-> try_from(algo_as_str(body).str).algo,
                         result |-> NoResponse]
            /\ operator' = [algo |-> try_from(algo_as_str(body).str).algo,
                            superseded |-> FALSE]
    /\ UNCHANGED <<now, pc, worker_addr, worker_res, result, decrements, pool_history, other_vars>>

\* change_algo, lines 95-103: the 200 response is returned
ChangeAlgoRespond ==
    /\ admin.pc = "respond"
    /\ admin' = [admin EXCEPT !.pc = "idle", !.result = Response(200, TextPlain)]
    /\ UNCHANGED <<lb, now, operator, pc, worker_addr, worker_res, result, decrements,
                   pool_history, other_vars>>

Next ==
    \/ Tick
    \/ \E c \in Connections : ForwardPick(c)
    \/ \E c \in Connections : ConnectOk(c)
    \/ \E c \in Connections : ConnectRefused(c)
    \/ \E c \in Connections : HandshakeOk(c)
    \/ \E c \in Connections : HandshakeErr(c)
    \/ \E c \in Connections : SendOk(c)
    \/ \E c \in Connections : SendErr(c)
    \/ \E c \in Connections : Release(c)
    \/ \E body \in AlgoBodies : ChangeAlgo(body)
    \/ ChangeAlgoRespond

Spec == Init /\ [][Next]_vars


\* ------------------------------------------- SpecPool: the pool on its own

\* the pools LoadBalancer::new accepts: one to three servers of the fleet
PoolSizes == 1..Len(FleetAddresses)

InitPool ==
    /\ now = 0
    /\ \E n \in PoolSizes :
         lb = LoadBalancer_new([i \in 1..n |-> Server_new(FleetAddresses[i])], 0)
    /\ pc = [c \in Connections |-> "idle"]
    /\ worker_addr = [c \in Connections |-> ""]
    /\ worker_res = [c \in Connections |-> NoResponse]
    /\ result = [c \in Connections |-> NoResponse]
    /\ decrements = [c \in Connections |-> 0]
    /\ admin = [pc |-> "idle", algo |-> RoundRobin, result |-> NoResponse]
    /\ operator = NoOperator
    /\ call = NoCall
    /\ rr_run = <<>>
    /\ sup_times = <<0>>
    /\ WorkerInit
    /\ ScenarioInit
    /\ ExtraInit

\* the last n elements of a sequence
LastN(seq, n) ==
    IF Len(seq) <= n THEN seq ELSE SubSeq(seq, Len(seq) - n + 1, Len(seq))

\* the clock advances by one tick
PoolTick ==
    /\ now < MaxPoolTime
    /\ now' = now + 1
    /\ UNCHANGED <<lb, dispatcher_vars, pool_history, other_vars>>

\* a call of next_server
PoolNextServer ==
    LET picked == next_server(lb, now)
        in_cooldown == num_seconds(now - lb.last_check) < MIN_SECONDS_BETWEEN_ALGO_CHANGES
    IN /\ TotalConnections(picked.lb) <= MaxPoolInFlight
       /\ lb' = picked.lb
       /\ call' = [op |-> "next_server",
                   ret |-> get_address(picked.lb.servers[picked.server + 1])]
       /\ rr_run' = IF lb.algorithm = RoundRobin /\ in_cooldown
                    THEN LastN(Append(rr_run, [cursor |-> lb.current_server,
                                               server |-> picked.server]),
                               Len(lb.servers))
                    ELSE <<>>
       /\ sup_times' = IF check_conditions_and_set_best_algo(lb, now).algorithm
                            # lb.algorithm
                       THEN LastN(Append(sup_times, now), 2)
                       ELSE sup_times
       /\ UNCHANGED <<now, dispatcher_vars, other_vars>>

\* a call of set_algorithm
PoolSetAlgorithm(algorithm) ==
    /\ lb' = set_algorithm(lb, algorithm)
    /\ call' = [op |-> "set_algorithm", ret |-> ""]
    /\ rr_run' = <<>>
    /\ UNCHANGED <<now, dispatcher_vars, other_vars, sup_times>>

\* a call of get_server_by_address, and of decrement_connections on the
\* server it finds
PoolRelease(address) ==
    LET found == get_server_by_address(lb, address)
    IN /\ IF found = 0
          THEN /\ lb' = lb
               /\ call' = [op |-> "release", ret |-> "none"]
          ELSE /\ lb' = [lb EXCEPT !.servers[found] = decrement_connections(@)]
               /\ call' = [op |-> "release",
                           ret |-> IF get_connections(lb.servers[found]) = 0
                                   THEN "zero" ELSE "positive"]
       /\ UNCHANGED <<now, dispatcher_vars, other_vars, rr_run, sup_times>>

NextPool ==
    \/ PoolTick
    \/ PoolNextServer
    \/ \E algorithm \in BalancingAlgorithm : PoolSetAlgorithm(algorithm)
    \/ \E i \in 1..Len(FleetAddresses) : PoolRelease(FleetAddresses[i])
    \/ PoolRelease(UnknownAddress)

SpecPool == InitPool /\ [][NextPool]_vars

\* ------------------------------------------------- SpecWorker: the worker
\* One worker process: POST /setup requests and one connection sending
\* POST /work requests, whose task stops at each await.

balancer_vars == <<lb, now, dispatcher_vars, pool_history>>

\* setup_record of every body, computed once
SetupRecords == [body \in SetupBodies |-> setup_record(body)]

\* work_multiplier of every body, computed once
WorkMultipliers == [body \in WorkBodies |-> work_multiplier(body)]

\* setup, lines 124-167.  A body that is not JSON makes from_reader fail and
\* the handler return Err; otherwise the record is stored under the write
\* lock and the response is 200.
Setup(body) ==
    /\ IF body.kind = "not_json"
       THEN /\ setup_res' = WorkerErr
            /\ UNCHANGED GLOBAL_STATE
       ELSE /\ GLOBAL_STATE' = SetupRecords[body]
            /\ setup_res' = WorkerResponse(200, "Setup done")
    /\ UNCHANGED <<work, balancer_vars, scenario_vars, extra_vars>>

\* work, lines 171-184: the body is parsed, the multiplier computed, the
\* first read lock taken, the base drawn and multiplied
WorkReadDurations(body) ==
    /\ work.pc = "idle"
    /\ IF body.kind = "not_json"
       THEN work' = [NoWork EXCEPT !.res = WorkerErr]
       ELSE LET multiplier == WorkMultipliers[body]
            IN \E random_duration \in
                    gen_range(GLOBAL_STATE.min_duration, GLOBAL_STATE.max_duration) :
                 IF random_duration.panic
                 THEN work' = [NoWork EXCEPT !.res = WorkerPanic]
                 ELSE \E duration \in mul_u64(multiplier, random_duration.value) :
                        IF duration.panic
                        THEN work' = [NoWork EXCEPT !.res = WorkerPanic]
                        ELSE work' = [NoWork EXCEPT
                                        !.pc = "read_error_rate",
                                        !.multiplier = multiplier,
                                        !.first = GLOBAL_STATE,
                                        !.random_duration = random_duration.value,
                                        !.duration = duration.value]
    /\ UNCHANGED <<GLOBAL_STATE, setup_res, balancer_vars, scenario_vars, extra_vars>>

\* work, lines 186-193: the second read lock is taken and the status drawn
WorkReadErrorRate ==
    /\ work.pc = "read_error_rate"
    /\ \E failed \in gen_bool(GLOBAL_STATE.error_rate) :
         IF failed.panic
         THEN work' = [NoWork EXCEPT !.res = WorkerPanic]
         ELSE work' = [NoWork EXCEPT
                         !.pc = "sleep",
                         !.duration = work.duration,
                         !.status = IF failed.value THEN 500 ELSE 200]
    /\ UNCHANGED <<GLOBAL_STATE, setup_res, balancer_vars, scenario_vars, extra_vars>>

\* work, lines 195-201: the sleep is over and the response is built
WorkRespond ==
    /\ work.pc = "sleep"
    /\ work' = [NoWork EXCEPT !.res = WorkerResponse(work.status, "Work done")]
    /\ UNCHANGED <<GLOBAL_STATE, setup_res, balancer_vars, scenario_vars, extra_vars>>

NextWorker ==
    \/ \E body \in SetupBodies : Setup(body)
    \/ \E body \in WorkBodies : WorkReadDurations(body)
    \/ WorkReadErrorRate
    \/ WorkRespond

SpecWorker == Init /\ [][NextWorker]_vars

\* ------------------------------------- SpecDisconnect: clients that leave
\* The dispatcher with reachable workers and clients that may close their
\* connection while their request is being forwarded.

Disconnected == [kind |-> "disconnected", status |-> 0, headers |-> {}]

\* main, lines 47-53: serve_connection ends when the client closes the
\* connection, and the forward_request future it owns is dropped at the
\* await it is suspended at; no statement after that await runs
ClientDisconnect(c) ==
    /\ pc[c] \in {"connect", "handshake", "send", "release"}
    /\ Terminate(c, Disconnected)
    /\ UNCHANGED <<lb, now, decrements, admin, operator, pool_history, other_vars>>

NextDisconnect ==
    \/ Tick
    \/ \E c \in Connections : ForwardPick(c)
    \/ \E c \in Connections : ConnectOk(c)
    \/ \E c \in Connections : HandshakeOk(c)
    \/ \E c \in Connections : SendOk(c)
    \/ \E c \in Connections : Release(c)
    \/ \E c \in Connections : ClientDisconnect(c)

SpecDisconnect == Init /\ [][NextDisconnect]_vars

\* ------------------------------------------ SpecSerial: one serial client
\* The dispatcher with reachable workers and a client that sends its next
\* request when the previous one is answered; no POST /algo.

\* forward_request, lines 130-157, for the next request of the serial client
SerialPick(c) ==
    /\ \A d \in Connections : pc[d] = "idle"
    /\ served < MaxServed
    /\ \E req \in ClientRequests : handle_request(req[1], req[2]) = "forward_request"
    /\ LET picked == next_server(lb, now)
       IN /\ lb' = picked.lb
          /\ worker_addr' = [worker_addr EXCEPT
                               ![c] = get_address(picked.lb.servers[picked.server + 1])]
    /\ pc' = [pc EXCEPT ![c] = "connect"]
    /\ result' = [result EXCEPT ![c] = NoResponse]
    /\ decrements' = [decrements EXCEPT ![c] = 0]
    /\ served' = served + 1
    /\ UNCHANGED <<now, worker_res, admin, operator, pool_history, worker_vars,
                   override, returned, pin, extra_vars>>

\* the clock advances by one tick
SerialTick ==
    /\ now < MaxPoolTime
    /\ now' = now + 1
    /\ UNCHANGED <<lb, dispatcher_vars, pool_history, other_vars>>

NextSerial ==
    \/ SerialTick
    \/ \E c \in Connections : SerialPick(c)
    \/ \E c \in Connections : ConnectOk(c)
    \/ \E c \in Connections : HandshakeOk(c)
    \/ \E c \in Connections : SendOk(c)
    \/ \E c \in Connections : Release(c)

SpecSerial == Init /\ [][NextSerial]_vars

\* ------------------------------- SpecPinned: least_connections on (5, 0, 0)
\* The pool when set_algorithm(LeastConnections) has just been called with
\* counters 5, 0, 0, any cursor; afterwards only next_server is called.

PinnedCounters == <<PinnedLoad, 0, 0>>
MaxPinnedInFlight == 3 * PinnedLoad + 1

InitPinned ==
    /\ now = 0
    /\ \E cursor \in 0..(Len(FleetAddresses) - 1) :
         /\ lb = [servers |-> [i \in 1..Len(FleetAddresses) |->
                                 [address |-> FleetAddresses[i],
                                  connections |-> PinnedCounters[i]]],
                  current_server |-> cursor,
                  algorithm |-> LeastConnections,
                  last_check |-> 0]
         /\ pin = [cursor |-> cursor, first |-> "none"]
    /\ pc = [c \in Connections |-> "idle"]
    /\ worker_addr = [c \in Connections |-> ""]
    /\ worker_res = [c \in Connections |-> NoResponse]
    /\ result = [c \in Connections |-> NoResponse]
    /\ decrements = [c \in Connections |-> 0]
    /\ admin = [pc |-> "idle", algo |-> LeastConnections, result |-> NoResponse]
    /\ operator = [algo |-> LeastConnections, superseded |-> FALSE]
    /\ call = [op |-> "set_algorithm", ret |-> ""]
    /\ rr_run = <<>>
    /\ sup_times = <<0>>
    /\ WorkerInit
    /\ served = 0
    /\ override = NoOverride
    /\ returned = -1
    /\ ExtraInit

\* a call of next_server
PinnedNextServer ==
    LET picked == next_server(lb, now)
        late == num_seconds(now - lb.last_check) >= MIN_SECONDS_BETWEEN_ALGO_CHANGES
    IN /\ TotalConnections(lb) < MaxPinnedInFlight
       /\ lb' = picked.lb
       /\ call' = [op |-> "next_server",
                   ret |-> get_address(picked.lb.servers[picked.server + 1])]
       /\ pin' = IF pin.first = "none"
                 THEN [pin EXCEPT !.first = IF late THEN "late" ELSE "early"]
                 ELSE pin
       /\ UNCHANGED <<now, dispatcher_vars, rr_run, sup_times, worker_vars,
                      served, override, returned, extra_vars>>

NextPinned ==
    \/ PoolTick
    \/ PinnedNextServer

SpecPinned == InitPinned /\ [][NextPinned]_vars

\* -------------------------- SpecOperator: the pool and its operator's /algo
\* The methods of LoadBalancer called in any order, with the clock followed
\* second by second and what the last set_algorithm call wrote remembered.

InitOperator == InitPool

\* a call of next_server
OperatorNextServer ==
    LET picked == next_server(lb, now)
    IN /\ TotalConnections(picked.lb) <= MaxOperatorInFlight
       /\ lb' = picked.lb
       /\ returned' = picked.server
       /\ UNCHANGED <<now, dispatcher_vars, pool_history, worker_vars,
                      served, override, pin, extra_vars>>

\* a call of set_algorithm, as change_algo makes it before it answers 200
OperatorSetAlgorithm(algorithm) ==
    /\ lb' = set_algorithm(lb, algorithm)
    /\ override' = [algo |-> algorithm, at |-> now, last_check |-> lb.last_check]
    /\ UNCHANGED <<now, dispatcher_vars, pool_history, worker_vars,
                   served, returned, pin, extra_vars>>

\* a call of get_server_by_address, and of decrement_connections on the
\* server it finds
OperatorRelease(address) ==
    LET found == get_server_by_address(lb, address)
    IN /\ found # 0
       /\ lb' = [lb EXCEPT !.servers[found] = decrement_connections(@)]
       /\ UNCHANGED <<now, dispatcher_vars, pool_history, other_vars>>

\* the clock advances by a second
OperatorTick ==
    /\ now + TicksPerSecond <= MaxPoolTime
    /\ now' = now + TicksPerSecond
    /\ UNCHANGED <<lb, dispatcher_vars, pool_history, other_vars>>

NextOperator ==
    \/ OperatorTick
    \/ OperatorNextServer
    \/ \E algorithm \in BalancingAlgorithm : OperatorSetAlgorithm(algorithm)
    \/ \E i \in 1..Len(lb.servers) : OperatorRelease(get_address(lb.servers[i]))

SpecOperator == InitOperator /\ [][NextOperator]_vars


\* --------------------------------------------- SpecSetup: POST /setup
\* POST /setup requests sent one after another to one worker, over a wider
\* range of field texts than SpecWorker: numerals below and above the
\* defaults, with a sign, with leading zeros, empty, not a numeral, too large
\* for u64, and fields that are absent or not strings.

SetupDurationTexts ==
    DurationTexts \cup
    {to_string(5), to_string(7), <<"0", "0", "7">>, <<"+", "7">>,
     <<"-", "7">>, <<"a", "b", "c">>, <<>>}
SetupDurationFields ==
    {TextMissing, TextNumber} \cup {TextString(s) : s \in SetupDurationTexts}
SetupRateFields == {TextMissing, TextString(<<"0", ".", "5">>)}

SetupRequestBodies ==
    {[kind |-> k, min_duration |-> TextMissing, max_duration |-> TextMissing,
      error_rate |-> TextMissing] : k \in {"not_json", "non_object"}}
    \cup {[kind |-> "object", min_duration |-> a, max_duration |-> b, error_rate |-> r] :
            a \in SetupDurationFields, b \in SetupDurationFields,
            r \in SetupRateFields}

\* setup, lines 124-167, with the body of the request kept in setup_body
SetupRequest(body) ==
    /\ setup_body' = body
    /\ IF body.kind = "not_json"
       THEN /\ setup_res' = WorkerErr
            /\ UNCHANGED GLOBAL_STATE
       ELSE /\ GLOBAL_STATE' = setup_record(body)
            /\ setup_res' = WorkerResponse(200, "Setup done")
    /\ UNCHANGED <<work, balancer_vars, scenario_vars, lock, forward, route>>

NextSetup == \E body \in SetupRequestBodies : SetupRequest(body)

SpecSetup == Init /\ [][NextSetup]_vars


\* --------------------------------------- SpecHeaders: the copied headers
\* forward_request, lines 147-157, for one request after another.  A
\* HeaderMap is a sequence of entries, one per header name in the order the
\* names were first added, each with the values of that name in order.

MaxHeaders == 3
HeaderNames == {"accept", "x-tag"}
HeaderValues == {"a", "b"}
HeaderLines == [name : HeaderNames, value : HeaderValues]

RECURSIVE SeqsUpTo(_, _)
SeqsUpTo(S, n) ==
    IF n = 0 THEN {<<>>}
    ELSE LET shorter == SeqsUpTo(S, n - 1)
         IN shorter \cup {Append(s, x) : s \in {t \in shorter : Len(t) = n - 1}, x \in S}

\* the header lines a client request arrives with
ClientHeaderLines == SeqsUpTo(HeaderLines, MaxHeaders)

\* the position of the entry of `name` in a HeaderMap, 0 when it has none
HeaderMap_find(map, name) ==
    LET found == {i \in 1..Len(map) : map[i].name = name}
    IN IF found = {} THEN 0 ELSE CHOOSE i \in found : TRUE

\* HeaderMap::append: the value is added after the values the name has
HeaderMap_append(map, name, value) ==
    LET i == HeaderMap_find(map, name)
    IN IF i = 0 THEN Append(map, [name |-> name, values |-> <<value>>])
       ELSE [map EXCEPT ![i].values = Append(@, value)]

\* HeaderMap::insert: the value replaces every value the name has
HeaderMap_insert(map, name, value) ==
    LET i == HeaderMap_find(map, name)
    IN IF i = 0 THEN Append(map, [name |-> name, values |-> <<value>>])
       ELSE [map EXCEPT ![i].values = <<value>>]

\* HeaderMap::iter: one (name, value) item per value, entry by entry
RECURSIVE HeaderMap_iter(_)
HeaderMap_iter(map) ==
    IF map = <<>> THEN <<>>
    ELSE [i \in 1..Len(map[1].values) |->
            [name |-> map[1].name, value |-> map[1].values[i]]]
         \o HeaderMap_iter(Tail(map))

\* the headers of the request hyper hands to the service: every header line
\* received is appended
RECURSIVE parse_headers(_, _)
parse_headers(lines, map) ==
    IF lines = <<>> THEN map
    ELSE parse_headers(Tail(lines),
                       HeaderMap_append(map, lines[1].name, lines[1].value))

\* the loop of lines 155-157 over the items of an iterator, on the headers
\* of the request built at lines 149-153
RECURSIVE copy_headers(_, _)
copy_headers(items, worker_headers) ==
    IF items = <<>> THEN worker_headers
    ELSE copy_headers(Tail(items),
                      HeaderMap_insert(worker_headers, items[1].name, items[1].value))

\* a client request arrives
ReceiveRequest(lines) ==
    /\ forward.built \/ forward = NoForward
    /\ forward' = [lines |-> lines, headers |-> parse_headers(lines, <<>>),
                   worker_headers |-> <<>>, built |-> FALSE]
    /\ UNCHANGED <<balancer_vars, worker_vars, scenario_vars, lock, setup_body, route>>

\* forward_request, lines 147-157: the request to the worker is built
BuildWorkerRequest ==
    /\ ~forward.built
    /\ forward # NoForward
    /\ forward' = [forward EXCEPT
                     !.worker_headers = copy_headers(HeaderMap_iter(forward.headers), <<>>),
                     !.built = TRUE]
    /\ UNCHANGED <<balancer_vars, worker_vars, scenario_vars, lock, setup_body, route>>

NextHeaders ==
    \/ \E lines \in ClientHeaderLines : ReceiveRequest(lines)
    \/ BuildWorkerRequest

SpecHeaders == Init /\ [][NextHeaders]_vars


\* ------------------------------------------- SpecRoute: handle_request
\* One client connection sending requests of several methods and paths, one
\* after another.  route holds the request being served: the handler it was
\* given to, the algorithm when it arrived, the picks and the connection
\* attempts made for it.

RouteMethods == {"POST", "GET", "PUT"}
RoutePaths == {"/algo", "/algo/", "/work", "/ALGO"}

\* bodies sent to POST /algo here
RouteBodies ==
    {[kind |-> "not_json", algo |-> JsonMissing]}
    \cup {[kind |-> "object", algo |-> JsonString(s)] :
            s \in {ROUND_ROBIN, LEAST_CONNECTIONS, "bogus"}}

RouteTick ==
    /\ now + TicksPerSecond <= MaxTime
    /\ now' = now + TicksPerSecond
    /\ UNCHANGED <<lb, dispatcher_vars, pool_history, worker_vars, scenario_vars,
                   lock, setup_body, forward, route>>

\* handle_request, lines 69-78: the request is matched and its handler
\* called; the handler waits for the pool lock (change_algo: after the body)
RouteReceive(method, path) ==
    /\ route.pc = "idle"
    /\ route' = [pc |-> "lock", method |-> method, path |-> path,
                 handler |-> handle_request(method, path),
                 before |-> lb.algorithm, picks |-> 0, attempts |-> 0, addr |-> ""]
    /\ UNCHANGED <<balancer_vars, worker_vars, scenario_vars, lock, setup_body, forward>>

\* change_algo, lines 85-122
RouteChangeAlgo(body) ==
    /\ route.pc = "lock"
    /\ route.handler = "change_algo"
    /\ IF body.kind # "not_json" /\ algo_as_str(body).some
          /\ try_from(algo_as_str(body).str).ok
       THEN lb' = set_algorithm(lb, try_from(algo_as_str(body).str).algo)
       ELSE lb' = lb
    /\ route' = [route EXCEPT !.pc = "idle"]
    /\ UNCHANGED <<now, dispatcher_vars, pool_history, worker_vars, scenario_vars,
                   lock, setup_body, forward>>

\* forward_request, lines 130-159: the pick under the write lock, the request
\* built, the connection to the picked address started
RoutePick ==
    /\ route.pc = "lock"
    /\ route.handler = "forward_request"
    /\ TotalConnections(lb) < MaxInFlight
    /\ LET picked == next_server(lb, now)
       IN /\ lb' = picked.lb
          /\ route' = [route EXCEPT
                         !.pc = "connect",
                         !.picks = @ + 1,
                         !.attempts = @ + 1,
                         !.addr = get_address(picked.lb.servers[picked.server + 1])]
    /\ UNCHANGED <<now, dispatcher_vars, pool_history, worker_vars, scenario_vars,
                   lock, setup_body, forward>>

\* the client goes away while the handler waits for the lock: the handler's
\* future is dropped
RouteDisconnect ==
    /\ route.pc = "lock"
    /\ route' = [route EXCEPT !.pc = "idle"]
    /\ UNCHANGED <<balancer_vars, worker_vars, scenario_vars, lock, setup_body, forward>>

\* forward_request, lines 159-180: the worker answers and the counter of the
\* picked address is released
RouteForwarded ==
    /\ route.pc = "connect"
    /\ LET found == get_server_by_address(lb, route.addr)
       IN IF found = 0 THEN lb' = lb
          ELSE lb' = [lb EXCEPT !.servers[found] = decrement_connections(@)]
    /\ route' = [route EXCEPT !.pc = "idle"]
    /\ UNCHANGED <<now, dispatcher_vars, pool_history, worker_vars, scenario_vars,
                   lock, setup_body, forward>>

\* forward_request, lines 159-171: the connection is refused (unwrap panics)
\* or the handshake or the exchange fails (`?`); nothing is released
RouteFailed ==
    /\ route.pc = "connect"
    /\ route' = [route EXCEPT !.pc = "idle"]
    /\ UNCHANGED <<balancer_vars, worker_vars, scenario_vars, lock, setup_body, forward>>

NextRoute ==
    \/ RouteTick
    \/ \E method \in RouteMethods, path \in RoutePaths : RouteReceive(method, path)
    \/ \E body \in RouteBodies : RouteChangeAlgo(body)
    \/ RoutePick
    \/ RouteDisconnect
    \/ RouteForwarded
    \/ RouteFailed

SpecRoute == Init /\ [][NextRoute]_vars


\* ------------------------------------ SpecStream: the response body
\* The dispatcher with reachable workers, the return of forward_request
\* followed to the end of the response: Response::new(res_body) at line 180
\* hands hyper a body that is still the worker's Incoming stream, and hyper
\* copies it to the client after forward_request has returned.

\* lines 174-180: the write lock is granted, the counter of the server with
\* the address is decremented, Response::new(res_body) is returned and the
\* body starts to flow to the client
StreamRelease(c) ==
    /\ pc[c] = "release"
    /\ LET found == get_server_by_address(lb, worker_addr[c])
       IN IF found = 0
          THEN /\ Terminate(c, HandlerPanic)
               /\ UNCHANGED <<lb, decrements>>
          ELSE /\ lb' = [lb EXCEPT !.servers[found] = decrement_connections(@)]
               /\ decrements' = [decrements EXCEPT ![c] = @ + 1]
               /\ pc' = [pc EXCEPT ![c] = "stream"]
               /\ UNCHANGED <<worker_addr, worker_res, result>>
    /\ UNCHANGED <<now, admin, operator, pool_history, other_vars>>

\* the last frame of the worker's body has been written to the client
StreamBodyDone(c) ==
    /\ pc[c] = "stream"
    /\ Terminate(c, Response_new)
    /\ UNCHANGED <<lb, now, decrements, admin, operator, pool_history, other_vars>>

NextStream ==
    \/ \E c \in Connections : ForwardPick(c)
    \/ \E c \in Connections : ConnectOk(c)
    \/ \E c \in Connections : HandshakeOk(c)
    \/ \E c \in Connections : SendOk(c)
    \/ \E c \in Connections : StreamRelease(c)
    \/ \E c \in Connections : StreamBodyDone(c)

SpecStream == Init /\ [][NextStream]_vars


\* ------------------------------------------- SpecLock: the pool lock
\* The tasks of the dispatcher with the write lock of the pool followed
\* guard by guard: every task waits for the lock, runs its block while its
\* guard exists and drops the guard at the end of the block.  The worker at
\* HungAddress accepts connections and never answers; the others answer.
\* served counts the round-robin picks made since the algorithm last became
\* round_robin, pin.cursor is the cursor at that moment.

HungAddress == FleetAddresses[1]
MaxLockPicks == 4

\* the variables no step of SpecLock changes
lock_frame ==
    <<worker_res, result, decrements, operator, pool_history, worker_vars,
      override, returned, setup_body, forward, route>>

\* the tasks that are waiting for or making a pick
Picking == {c \in Connections : pc[c] \in {"pick_wait", "supervise", "select"}}

LockTick ==
    /\ now + TicksPerSecond <= MaxTime
    /\ now' = now + TicksPerSecond
    /\ UNCHANGED <<lb, pc, worker_addr, admin, served, pin, lock, lock_frame>>

\* forward_request is called and reaches lb.write().await (line 131)
LockArrive(c) ==
    /\ pc[c] = "idle"
    /\ served + Cardinality(Picking) < MaxLockPicks
    /\ pc' = [pc EXCEPT ![c] = "pick_wait"]
    /\ UNCHANGED <<lb, now, worker_addr, admin, served, pin, lock, lock_frame>>

\* line 131: the write guard is granted
LockPickAcquire(c) ==
    /\ pc[c] = "pick_wait"
    /\ lock_free(lock)
    /\ lock' = c
    /\ pc' = [pc EXCEPT ![c] = "supervise"]
    /\ UNCHANGED <<lb, now, worker_addr, admin, served, pin, lock_frame>>

\* line 132, next_server line 30: the supervisor
LockSupervise(c) ==
    /\ pc[c] = "supervise"
    /\ lb' = check_conditions_and_set_best_algo(lb, now)
    /\ pc' = [pc EXCEPT ![c] = "select"]
    /\ IF lb'.algorithm # lb.algorithm
       THEN /\ served' = 0
            /\ pin' = [pin EXCEPT !.cursor = lb'.current_server]
       ELSE UNCHANGED <<served, pin>>
    /\ UNCHANGED <<now, worker_addr, admin, lock, lock_frame>>

\* lines 132-134, next_server lines 32-52: the choice, the cursor, the
\* increment, the address; the guard is dropped at the end of the block
LockSelect(c) ==
    /\ pc[c] = "select"
    /\ LET picked == next_server_select(lb)
       IN /\ lb' = picked.lb
          /\ worker_addr' = [worker_addr EXCEPT
                               ![c] = get_address(picked.lb.servers[picked.server + 1])]
    /\ served' = IF lb.algorithm = RoundRobin THEN served + 1 ELSE served
    /\ lock' = guard_drop(c)
    /\ pc' = [pc EXCEPT ![c] = "connect"]
    /\ UNCHANGED <<now, admin, pin, lock_frame>>

\* line 159: the connection is made
LockConnectOk(c) ==
    /\ pc[c] = "connect"
    /\ pc' = [pc EXCEPT ![c] = "handshake"]
    /\ UNCHANGED <<lb, now, worker_addr, admin, served, pin, lock, lock_frame>>

\* lines 162-171: the handshake is done, the request is sent
LockHandshakeOk(c) ==
    /\ pc[c] = "handshake"
    /\ pc' = [pc EXCEPT ![c] = "send"]
    /\ UNCHANGED <<lb, now, worker_addr, admin, served, pin, lock, lock_frame>>

\* lines 171-175: a worker that is not hung answers; forward_request reaches
\* lb.write().await (line 175)
LockSendOk(c) ==
    /\ pc[c] = "send"
    /\ worker_addr[c] # HungAddress
    /\ pc' = [pc EXCEPT ![c] = "release_wait"]
    /\ UNCHANGED <<lb, now, worker_addr, admin, served, pin, lock, lock_frame>>

\* line 175: the write guard is granted
LockReleaseAcquire(c) ==
    /\ pc[c] = "release_wait"
    /\ lock_free(lock)
    /\ lock' = c
    /\ pc' = [pc EXCEPT ![c] = "releasing"]
    /\ UNCHANGED <<lb, now, worker_addr, admin, served, pin, lock_frame>>

\* lines 176-180: the counter is decremented, the guard dropped, the
\* response returned
LockRelease(c) ==
    /\ pc[c] = "releasing"
    /\ LET found == get_server_by_address(lb, worker_addr[c])
       IN IF found = 0 THEN lb' = lb
          ELSE lb' = [lb EXCEPT !.servers[found] = decrement_connections(@)]
    /\ lock' = guard_drop(c)
    /\ pc' = [pc EXCEPT ![c] = "idle"]
    /\ worker_addr' = [worker_addr EXCEPT ![c] = ""]
    /\ UNCHANGED <<now, admin, served, pin, lock_frame>>

\* change_algo, lines 85-90: a body with a valid algorithm has been read;
\* the task reaches lb.write().await
LockAdminArrive(algorithm) ==
    /\ admin.pc = "idle"
    /\ admin' = [admin EXCEPT !.pc = "wait", !.algo = algorithm]
    /\ UNCHANGED <<lb, now, pc, worker_addr, served, pin, lock, lock_frame>>

\* line 90: the write guard is granted
LockAdminAcquire ==
    /\ admin.pc = "wait"
    /\ lock_free(lock)
    /\ lock' = AdminTask
    /\ admin' = [admin EXCEPT !.pc = "set"]
    /\ UNCHANGED <<lb, now, pc, worker_addr, served, pin, lock_frame>>

\* lines 91-102: set_algorithm, the guard dropped, the 200 response
LockAdminSet ==
    /\ admin.pc = "set"
    /\ lb' = set_algorithm(lb, admin.algo)
    /\ lock' = guard_drop(AdminTask)
    /\ admin' = [admin EXCEPT !.pc = "idle"]
    /\ served' = 0
    /\ pin' = [pin EXCEPT !.cursor = lb.current_server]
    /\ UNCHANGED <<now, pc, worker_addr, lock_frame>>

NextLock ==
    \/ LockTick
    \/ \E c \in Connections : LockArrive(c)
    \/ \E c \in Connections : LockPickAcquire(c)
    \/ \E c \in Connections : LockSupervise(c)
    \/ \E c \in Connections : LockSelect(c)
    \/ \E c \in Connections : LockConnectOk(c)
    \/ \E c \in Connections : LockHandshakeOk(c)
    \/ \E c \in Connections : LockSendOk(c)
    \/ \E c \in Connections : LockReleaseAcquire(c)
    \/ \E c \in Connections : LockRelease(c)
    \/ \E algorithm \in BalancingAlgorithm : LockAdminArrive(algorithm)
    \/ LockAdminAcquire
    \/ LockAdminSet

SpecLock == Init /\ [][NextLock]_vars


\* SpecLock with the scheduling the runtime gives: a task whose guard exists
\* runs its block to the end, a worker that is not hung answers, and the
\* write lock of tokio is fair (waiters are served in order), so a task that
\* waits for the lock while it is released again and again gets it.  No
\* fairness on arrivals, on the clock, or on anything of the hung worker
\* beyond accepting the connection.
LockFairness ==
    /\ \A c \in Connections :
          /\ SF_vars(LockPickAcquire(c))
          /\ SF_vars(LockReleaseAcquire(c))
          /\ WF_vars(LockSupervise(c))
          /\ WF_vars(LockSelect(c))
          /\ WF_vars(LockConnectOk(c))
          /\ WF_vars(LockHandshakeOk(c))
          /\ WF_vars(LockSendOk(c))
          /\ WF_vars(LockRelease(c))
    /\ SF_vars(LockAdminAcquire)
    /\ WF_vars(LockAdminSet)

SpecLockFair == SpecLock /\ LockFairness


\* ------------------------------------------------------------ properties

\* the connections whose forwarded request has been dispatched to the server
\* at position i and has not terminated
InFlight(i) ==
    {c \in Connections : pc[c] # "idle" /\ worker_addr[c] = get_address(lb.servers[i])}

\* the step in which forward_request of connection c picks its backend
PickStep(c) == pc[c] = "idle" /\ pc'[c] = "connect"

\* the step in which the forwarding of connection c fails
FailStep(c) == ConnectRefused(c) \/ HandshakeErr(c) \/ SendErr(c)

Counters(self) == [i \in 1..Len(self.servers) |-> get_connections(self.servers[i])]

\* the position (1-based) of the first server holding the smallest counter
FirstMinimum(self) ==
    CHOOSE i \in 1..Len(self.servers) :
        /\ \A j \in 1..Len(self.servers) : Counters(self)[i] <= Counters(self)[j]
        /\ \A j \in 1..(i - 1) : Counters(self)[j] > Counters(self)[i]

\* C1: each backend's counter equals the number of forwarded requests that
\* were dispatched to it and have not terminated; with no request in flight
\* every counter is 0.
C1_CounterBalance ==
    \A i \in 1..Len(lb.servers) :
        get_connections(lb.servers[i]) = Cardinality(InFlight(i))

\* C2: when a forwarded request has terminated, whether it succeeded or
\* failed, the counter of its backend has been decremented exactly once.
C2_DecrementedOnce ==
    \A c \in Connections :
        (pc[c] = "idle" /\ result[c].kind # "none") => decrements[c] = 1

\* C3: a forwarding failure (connect refused, handshake error, send error)
\* is answered to the client with a 5xx response, and the task ends without
\* a second attempt.
C3_FailureAnswered5xx ==
    [][\A c \in Connections :
          FailStep(c) =>
              /\ result'[c].kind = "response"
              /\ result'[c].status \in 500..599
              /\ pc'[c] = "idle"]_vars

\* C4: no counter is ever negative, and a release of a server whose
\* counter is 0 leaves that counter (and every other) as it was.
C4_NeverNegative ==
    [][/\ \A i \in 1..Len(lb'.servers) : get_connections(lb'.servers[i]) >= 0
       /\ (call'.op = "release" /\ call'.ret = "zero") =>
              Counters(lb') = Counters(lb)]_vars

C4_ReleasedAtZero == call = [op |-> "release", ret |-> "zero"]

\* C5: the response a successful forward returns to the client has the
\* status and the headers of the worker's response.
C5_WorkerResponseReturned ==
    [][\A c \in Connections :
          (pc[c] = "release" /\ result'[c].kind = "response") =>
              /\ result'[c].status = worker_res[c].status
              /\ result'[c].headers = worker_res[c].headers]_vars

\* C6: N consecutive picks that each start with round_robin inside the
\* cooldown, with no set_algorithm between them, return the N servers once
\* each, in pool order from the cursor held before the first of them.
C6_RoundRobinCycle ==
    Len(rr_run) = Len(lb.servers) =>
        /\ \A k \in 1..Len(rr_run) :
             rr_run[k].server = (rr_run[1].cursor + k - 1) % Len(lb.servers)
        /\ {rr_run[k].server : k \in 1..Len(rr_run)} = 0..(Len(lb.servers) - 1)

C6_FullCycleFromOne ==
    /\ Len(lb.servers) = 3
    /\ Len(rr_run) = 3
    /\ rr_run[1].cursor = 1

\* C7: a pick that selects with least_connections (the pick is the one step
\* that raises a counter) returns the first server among those whose counter
\* was the smallest, sets the cursor to its index and increments its counter
\* by one, leaving the other counters alone.
C7_LeastConnectionsPick ==
    [][(lb'.algorithm = LeastConnections
          /\ TotalConnections(lb') > TotalConnections(lb)) =>
          LET m == FirstMinimum(lb)
          IN /\ call'.ret = get_address(lb.servers[m])
             /\ lb'.current_server = m - 1
             /\ Counters(lb') = [Counters(lb) EXCEPT ![m] = @ + 1]]_vars

C7_TieBrokenByIndex ==
    /\ call = [op |-> "next_server", ret |-> FleetAddresses[2]]
    /\ lb.algorithm = LeastConnections
    /\ Len(lb.servers) = 3
    /\ Counters(lb) = <<1, 1, 0>>

\* C8: the times at which the supervisor changes the algorithm are at least
\* 5 seconds apart, and the first is at least 5 seconds after construction.
C8_SupervisorRateLimited ==
    Len(sup_times) = 2 =>
        sup_times[2] - sup_times[1] >= MIN_SECONDS_BETWEEN_ALGO_CHANGES * TicksPerSecond

C8_TwoSupervisorChanges == Len(sup_times) = 2 /\ sup_times[1] > 0

\* the last valid POST /algo has been answered with 200
AlgoReturned == operator.algo # "none" /\ admin.pc = "idle"

\* C9 as stated: a pick that starts after a POST /algo has returned 200, and
\* before a later successful one, selects with the algorithm it set.
C9_PickUsesOperatorAlgorithm ==
    [][\A c \in Connections :
          (PickStep(c) /\ AlgoReturned) => lb'.algorithm = operator.algo]_vars

\* C9 amended: such a pick, as long as the supervisor has not changed the
\* algorithm since that POST /algo, starts with the algorithm it set, and
\* selects with it unless the supervisor changes it in this very pick, which
\* it does only with at least 5 seconds elapsed since last_check.
C9_PickStartsWithOperatorAlgorithm ==
    [][\A c \in Connections :
          (PickStep(c) /\ AlgoReturned /\ ~operator.superseded) =>
              /\ lb.algorithm = operator.algo
              /\ lb'.algorithm # operator.algo =>
                    /\ num_seconds(now - lb.last_check)
                         >= MIN_SECONDS_BETWEEN_ALGO_CHANGES
                    /\ lb'.last_check = now]_vars

C9_PickAfterAlgo ==
    /\ operator = [algo |-> LeastConnections, superseded |-> FALSE]
    /\ admin.pc = "idle"
    /\ admin.result.status = 200
    /\ lb.algorithm = LeastConnections
    /\ lb.current_server = 1
    /\ \E c \in Connections : pc[c] = "connect" /\ worker_addr[c] = FleetAddresses[2]

\* the bodies of POST /algo that name an unknown algorithm or have no string
\* under "algo"
InvalidAlgoBodies ==
    {body \in AlgoBodies :
        /\ body.kind # "not_json"
        /\ ~(/\ body.kind = "object"
             /\ body.algo.type = "string"
             /\ body.algo.str \in {"round_robin", "least_connections"})}

\* the steps of Spec that leave every forwarding task and the clock alone:
\* those of change_algo
AdminStep == pc' = pc /\ now' = now

\* C10: a POST /algo with an unknown algorithm, or with a missing or
\* non-string "algo", is answered 400 and leaves the pool (algorithm,
\* cursor, counters, last_check) as it was.
C10_InvalidAlgoRejected ==
    [][AdminStep =>
          \A body \in InvalidAlgoBodies :
              ChangeAlgo(body) =>
                  /\ admin'.result.kind = "response"
                  /\ admin'.result.status = 400
                  /\ admin'.pc = "idle"
                  /\ lb' = lb]_vars

C10_RejectedUnderLeastConnections ==
    /\ admin.result.status = 400
    /\ admin.pc = "idle"
    /\ operator.algo = LeastConnections
    /\ lb.algorithm = LeastConnections

\* C11: after any sequence of POST /setup requests the stored tunables have
\* min_duration <= max_duration.
C11_MinAtMostMax == GLOBAL_STATE.min_duration <= GLOBAL_STATE.max_duration

\* C12: a POST /work with a JSON body is answered with status 200 or 500 and
\* the body "Work done"; its handler never panics.
C12_WorkAnswered ==
    /\ work.res.kind # "panic"
    /\ work.res.kind = "response" =>
         work.res.status \in {200, 500} /\ work.res.body = "Work done"

\* C13: the sleep of a /work is multiplier * base, the multiplier within
\* 1..10 and the base within [min_duration, max_duration] of the record
\* read, so it lies between multiplier * min and multiplier * max.
C13_SleepBounds ==
    work.pc = "read_error_rate" =>
        /\ work.multiplier \in 1..10
        /\ work.first.min_duration <= work.random_duration
        /\ work.random_duration <= work.first.max_duration
        /\ work.duration = work.multiplier * work.random_duration
        /\ work.multiplier * work.first.min_duration <= work.duration
        /\ work.duration <= work.multiplier * work.first.max_duration

\* C14: the min_duration, max_duration and error_rate one /work uses all
\* come from one record: the record its second read sees has the durations
\* or the error_rate of the record its first read saw.
C14_SingleRecord ==
    [][work.pc = "read_error_rate" /\ work'.pc = "sleep" =>
         \/ GLOBAL_STATE.error_rate = work.first.error_rate
         \/ /\ GLOBAL_STATE.min_duration = work.first.min_duration
            /\ GLOBAL_STATE.max_duration = work.first.max_duration]_vars

\* C15: a forwarding task ended by its client's disconnect after the pick
\* has decremented the counter of its backend.
C15_DisconnectReleases ==
    \A c \in Connections :
        pc[c] = "idle" /\ result[c] = Disconnected => decrements[c] = 1

\* C16: with serial requests, reachable workers and no POST /algo the k-th
\* forwarded request (k from 0) goes to backend k mod N, the algorithm is
\* round_robin throughout, and all counters are 0 when no request is in
\* flight.
C16_SerialRoundRobin ==
    /\ lb.algorithm = RoundRobin
    /\ \A c \in Connections :
         pc[c] # "idle" =>
           worker_addr[c] = FleetAddresses[((served - 1) % Len(lb.servers)) + 1]
    /\ (\A c \in Connections : pc[c] = "idle") =>
         \A i \in 1..Len(lb.servers) : get_connections(lb.servers[i]) = 0

\* C16 witness: the request after a full cycle is in flight, on backend 0
\* again, more than the cooldown after construction
C16_SecondCycleAfterCooldown ==
    /\ served = Len(FleetAddresses) + 1
    /\ now > MIN_SECONDS_BETWEEN_ALGO_CHANGES * TicksPerSecond
    /\ \E c \in Connections : pc[c] = "release" /\ worker_addr[c] = FleetAddresses[1]

\* both other backends have reached the counter backend 0 started with
BothReached(self) ==
    /\ get_connections(self.servers[2]) >= PinnedLoad
    /\ get_connections(self.servers[3]) >= PinnedLoad

\* C17: after least_connections is set on counters (5, 0, 0), picks without
\* a release or another POST /algo never return backend 0 until backends 1
\* and 2 have both reached 5, whatever the cursor and the elapsed time.
C17_NeverBackendZero ==
    call = [op |-> "next_server", ret |-> FleetAddresses[1]] => BothReached(lb)

\* C17 as amended: the same, unless the first of these picks finds the
\* cursor at backend 1 and the cooldown over.
C17_NeverBackendZeroUnlessSwitched ==
    ~(pin.cursor = 1 /\ pin.first = "late") => C17_NeverBackendZero

\* C17 witness: picks that started after the cooldown with the cursor at
\* backend 0 have brought backends 1 and 2 to 5
C17_BothReachedLate ==
    /\ pin = [cursor |-> 0, first |-> "late"]
    /\ call.op = "next_server"
    /\ Counters(lb) = <<PinnedLoad, PinnedLoad, PinnedLoad>>

\* the largest counter minus the smallest
Spread(self) ==
    LET counters == {Counters(self)[i] : i \in 1..Len(self.servers)}
    IN (CHOOSE x \in counters : \A y \in counters : x >= y)
       - (CHOOSE x \in counters : \A y \in counters : x <= y)

\* a call of next_server is the only step that raises a counter
PoolPickStep == TotalConnections(lb') > TotalConnections(lb)

\* C18: a pick that starts with round_robin on a pool of more than one
\* backend switches to least_connections before selecting iff the spread of
\* the counters exceeds 3 and at least 5 s have elapsed since last_check; it
\* then selects the first minimum, otherwise the backend at the cursor.  A
\* pick on a pool of one backend never changes the algorithm.
C18_SwitchIffSpreadAndCooldown ==
    [][PoolPickStep =>
         /\ Len(lb.servers) = 1 => lb'.algorithm = lb.algorithm
         /\ lb.algorithm = RoundRobin /\ Len(lb.servers) > 1 =>
              LET switches ==
                      /\ Spread(lb) > 3
                      /\ now - lb.last_check
                           >= MIN_SECONDS_BETWEEN_ALGO_CHANGES * TicksPerSecond
              IN /\ (lb'.algorithm = LeastConnections) <=> switches
                 /\ lb'.algorithm \in BalancingAlgorithm
                 /\ call'.ret = IF switches
                                THEN get_address(lb.servers[FirstMinimum(lb)])
                                ELSE get_address(lb.servers[lb.current_server + 1])]_vars

\* C18 witness: a pick has just switched to least_connections and returned
\* the first minimum, which is not where the cursor was
C18_SwitchedAndPickedMinimum ==
    /\ call = [op |-> "next_server", ret |-> FleetAddresses[2]]
    /\ lb.algorithm = LeastConnections
    /\ lb.last_check = now
    /\ sup_times = <<0, now>>
    /\ Counters(lb) = <<4, 1, 0>>

\* C19: whenever the supervisor can run with least_connections, the cursor
\* is the index next_server returned last, so the supervisor recommends
\* round_robin iff the first minimum is the backend returned last.
C19_CursorIsLastReturned ==
    lb.algorithm = LeastConnections /\ returned >= 0 =>
        /\ lb.current_server = returned
        /\ (recommended_algo(lb) = RoundRobin) <=> (FirstMinimum(lb) - 1 = returned)

\* a call of next_server in SpecOperator
OperatorPickStep == TotalConnections(lb') > TotalConnections(lb)

\* C20: a pick less than 5 s after the set_algorithm of a POST /algo selects
\* with the algorithm that request set.
C20_NoOverrideWithinFiveSeconds ==
    [][/\ OperatorPickStep
       /\ override.algo # "none"
       /\ now - override.at < MIN_SECONDS_BETWEEN_ALGO_CHANGES * TicksPerSecond
       => lb'.algorithm = override.algo]_vars

\* C20 as amended: a pick less than 5 s after the last_check the pool had
\* when the POST /algo was served selects with the algorithm that request
\* set.
C20_NoOverrideBeforeCooldownEnds ==
    [][/\ OperatorPickStep
       /\ override.algo # "none"
       /\ now - override.last_check < MIN_SECONDS_BETWEEN_ALGO_CHANGES * TicksPerSecond
       => lb'.algorithm = override.algo]_vars

\* C20 witness: least_connections was set 2 s after a supervisor change, a
\* pick 2 s later has returned the backend at the cursor the supervisor
\* would have traded for round_robin
C20_PickedWithinCooldown ==
    /\ override.algo = LeastConnections
    /\ override.last_check > 0
    /\ override.at = override.last_check + 2 * TicksPerSecond
    /\ now = override.at + 2 * TicksPerSecond
    /\ lb.algorithm = LeastConnections
    /\ returned = lb.current_server
    /\ recommended_algo(lb) = RoundRobin

\* C21: a valid POST /algo takes effect whatever time has elapsed since
\* last_check, and changes only the algorithm of the pool: the cursor, the
\* counters and last_check stay as they are.
C21_AlgoChangesOnlyAlgorithm ==
    [][admin.pc = "idle" /\ admin'.pc = "respond" =>
         lb' = [lb EXCEPT !.algorithm = admin'.algo]]_vars

\* C21 witness: least_connections has been written within the cooldown, a
\* request in flight and the cursor off 0
C21_ChangedWithinCooldown ==
    /\ admin.pc = "respond"
    /\ admin.algo = LeastConnections
    /\ lb.algorithm = LeastConnections
    /\ now - lb.last_check < MIN_SECONDS_BETWEEN_ALGO_CHANGES * TicksPerSecond
    /\ lb.current_server = 1
    /\ TotalConnections(lb) = 1

\* a release step of the pool: one counter went down
PoolReleaseStep == TotalConnections(lb') < TotalConnections(lb)

\* C22: last_check is modified only by a pick in which the supervisor changes
\* the algorithm, and is then set to the current time; a pick in which the
\* supervisor changes nothing leaves the algorithm and last_check as they
\* are; a release never modifies last_check.
C22_LastCheckOnlyOnSupervisorChange ==
    [][/\ lb'.last_check # lb.last_check =>
            /\ PoolPickStep
            /\ lb'.algorithm # lb.algorithm
            /\ lb'.last_check = now
       /\ PoolPickStep /\ lb'.algorithm # lb.algorithm => lb'.last_check = now
       /\ PoolPickStep /\ lb'.last_check = lb.last_check =>
            lb'.algorithm = lb.algorithm
       /\ PoolReleaseStep => lb'.last_check = lb.last_check]_vars

\* C22 witness: the supervisor has changed the algorithm at 5 s or later, and
\* a release has decremented a counter after that
C22_ReleasedAfterSupervisorChange ==
    /\ lb.last_check >= MIN_SECONDS_BETWEEN_ALGO_CHANGES * TicksPerSecond
    /\ lb.algorithm = LeastConnections
    /\ now > lb.last_check
    /\ call.op = "release"
    /\ call.ret = "positive"

\* the addresses release is called with: those of the fleet, of which a pool
\* of fewer than three servers holds only the first ones, and a foreign one
ReleaseAddresses ==
    {FleetAddresses[i] : i \in 1..Len(FleetAddresses)} \cup {UnknownAddress}

\* C26: release by address decrements the counter of the backend with that
\* address when it is above 0 and leaves every other counter, the cursor, the
\* algorithm and last_check as they are; the address a pick returned is
\* always found in the pool; for an address that is not in the pool the pool
\* is unchanged.
C26_ReleaseTouchesOnlyMatchingCounter ==
    [][/\ \A address \in ReleaseAddresses :
            PoolRelease(address) =>
              /\ lb'.algorithm = lb.algorithm
              /\ lb'.current_server = lb.current_server
              /\ lb'.last_check = lb.last_check
              /\ Len(lb'.servers) = Len(lb.servers)
              /\ \A i \in 1..Len(lb.servers) :
                   /\ get_address(lb'.servers[i]) = get_address(lb.servers[i])
                   /\ get_connections(lb'.servers[i]) =
                        IF /\ get_address(lb.servers[i]) = address
                           /\ get_connections(lb.servers[i]) > 0
                        THEN get_connections(lb.servers[i]) - 1
                        ELSE get_connections(lb.servers[i])
              /\ (\A i \in 1..Len(lb.servers) :
                     get_address(lb.servers[i]) # address) => lb' = lb
       /\ call'.op = "next_server" =>
            \E i \in 1..Len(lb'.servers) :
               /\ get_address(lb'.servers[i]) = call'.ret
               /\ get_connections(lb'.servers[i]) > 0]_vars

\* C26 witness: the second of three loaded backends has been released
C26_MiddleBackendReleased ==
    /\ call.op = "release"
    /\ call.ret = "positive"
    /\ Counters(lb) = <<1, 0, 1>>
    /\ lb.current_server = 2

\* C30: the cursor is an index of the pool in every reachable state
C30_CursorInRange ==
    /\ lb.current_server >= 0
    /\ lb.current_server < Len(lb.servers)

\* C30 witness: round robin has returned the last of three backends and the
\* cursor has wrapped to 0
C30_CursorWrapped ==
    /\ Len(lb.servers) = 3
    /\ lb.algorithm = RoundRobin
    /\ call.op = "next_server"
    /\ call.ret = FleetAddresses[3]
    /\ lb.current_server = 0

\* 10 to the power n
RECURSIVE Pow10(_)
Pow10(n) == IF n = 0 THEN 1 ELSE 10 * Pow10(n - 1)

\* the sum of f over the set S
RECURSIVE SumOver(_, _)
SumOver(f, S) ==
    IF S = {} THEN 0
    ELSE LET x == CHOOSE y \in S : TRUE IN f[x] + SumOver(f, S \ {x})

\* the number a field stands for: the field is a string, an optional "+"
\* followed by one or more decimal digits, and the number they denote (each
\* digit weighted by its power of ten) fits in u64; "none" otherwise
FieldNumber(field) ==
    IF field.type # "string" THEN [some |-> FALSE, value |-> 0]
    ELSE LET s == field.str
             digits == IF Len(s) > 0 /\ s[1] = "+" THEN Tail(s) ELSE s
             n == Len(digits)
         IN IF n = 0 \/ \E i \in 1..n : digits[i] \notin DOMAIN DigitValue
            THEN [some |-> FALSE, value |-> 0]
            ELSE LET v == SumOver([i \in 1..n |->
                                     DigitValue[digits[i]] * Pow10(n - i)], 1..n)
                 IN IF v > U64_MAX THEN [some |-> FALSE, value |-> 0]
                    ELSE [some |-> TRUE, value |-> v]

\* C27: after a POST /setup that is answered, the effective min_duration is
\* the number of the min_duration field, or the default 10 when the field is
\* absent or unparsable; the effective max_duration is the maximum of the
\* default floor 10 and the number of the max_duration field, an absent or
\* unparsable field being replaced by the effective min_duration.
C27_EffectiveDurations ==
    setup_res = WorkerResponse(200, "Setup done") /\ setup_body.kind # "not_json" =>
       LET min_field == IF setup_body.kind = "object"
                        THEN FieldNumber(setup_body.min_duration)
                        ELSE [some |-> FALSE, value |-> 0]
           max_field == IF setup_body.kind = "object"
                        THEN FieldNumber(setup_body.max_duration)
                        ELSE [some |-> FALSE, value |-> 0]
           min_duration == IF min_field.some THEN min_field.value ELSE 10
           max_or_min == IF max_field.some THEN max_field.value ELSE min_duration
       IN /\ GLOBAL_STATE.min_duration = min_duration
          /\ GLOBAL_STATE.max_duration = IF max_or_min > 10 THEN max_or_min ELSE 10

\* C27 witness: min_duration "100" and max_duration "50" have been stored as
\* 100 and 50
C27_MaxBelowMinStored ==
    /\ setup_res = WorkerResponse(200, "Setup done")
    /\ setup_body.min_duration = TextString(to_string(100))
    /\ setup_body.max_duration = TextString(to_string(50))
    /\ GLOBAL_STATE.min_duration = 100
    /\ GLOBAL_STATE.max_duration = 50

\* how many times x occurs in the sequence s
Occurrences(s, x) == Cardinality({i \in 1..Len(s) : s[i] = x})

\* C28: the request sent to the worker carries every header of the client
\* request, with the same name and value and as many times, repeated header
\* names included; no header is dropped, merged or altered.
C28_EveryHeaderForwarded ==
    forward.built =>
       \A line \in HeaderLines :
          Occurrences(HeaderMap_iter(forward.worker_headers), line)
            = Occurrences(forward.lines, line)

\* the request being served is not a POST to /algo
RouteOther == route.pc # "idle" /\ ~(route.method = "POST" /\ route.path = "/algo")

\* C29 as stated: a request is given to the change handler only when it is a
\* POST to exactly /algo; any other request never changes the algorithm and
\* has caused exactly one pick and one forwarding attempt when it ends.
C29_OtherRequestsNeverChangeAlgorithm ==
    [][/\ route'.handler = "change_algo" =>
            route'.method = "POST" /\ route'.path = "/algo"
       /\ RouteOther =>
            /\ lb'.algorithm = lb.algorithm
            /\ route'.pc = "idle" => route'.picks = 1 /\ route'.attempts = 1]_vars

\* C29, amended: a request is given to the change handler exactly when it is
\* a POST to exactly /algo; any other request changes the algorithm only in
\* its pick, by the supervisor, 5 s or more after last_check; it makes at
\* most one pick, each pick with one forwarding attempt, and exactly one of
\* both unless the client went away while it waited for the pool lock.
C29_OtherRequestsOnlyPickAndForward ==
    [][/\ route'.pc # "idle" =>
            (route'.handler = "change_algo"
               <=> route'.method = "POST" /\ route'.path = "/algo")
       /\ RouteOther =>
            /\ route.handler = "forward_request"
            /\ lb'.algorithm # lb.algorithm =>
                 /\ route'.picks = route.picks + 1
                 /\ now - lb.last_check
                      >= MIN_SECONDS_BETWEEN_ALGO_CHANGES * TicksPerSecond
                 /\ lb'.last_check = now
            /\ route'.picks <= 1
            /\ route'.attempts = route'.picks
            /\ route.pc = "connect" /\ route'.pc = "idle" =>
                 route'.picks = 1 /\ route'.attempts = 1
            /\ route.pc = "lock" /\ route'.pc = "idle" => route'.picks = 0]_vars

\* C29 witness: the pick of a GET /algo has been made, with one forwarding
\* attempt, and the supervisor has changed the algorithm in it
C29_GetAlgoPickSwitched ==
    /\ route.pc = "connect"
    /\ route.method = "GET"
    /\ route.path = "/algo"
    /\ route.handler = "forward_request"
    /\ route.picks = 1
    /\ route.attempts = 1
    /\ lb.algorithm # route.before

\* C23: the counter of the chosen backend is decremented only after the
\* response body has been handed back to the client: while the body of a
\* forwarded request is being streamed, the request is still counted in the
\* counter of its backend.
C23_CountedWhileStreaming ==
    \A c \in Connections :
       pc[c] = "stream" =>
          \E i \in 1..Len(lb.servers) :
             /\ get_address(lb.servers[i]) = worker_addr[c]
             /\ get_connections(lb.servers[i]) >= Cardinality(InFlight(i))

\* the stages in which forward_request waits on the backend
BackendStages == {"connect", "handshake", "send"}

\* C24: a forwarding task never holds the pool lock while it waits on the
\* backend; with one backend hung forever, every pick, every release and
\* every POST /algo of the other requests completes, a request dispatched to
\* a backend that is not hung reaches its release, and a request waiting for
\* the answer of the hung backend stays where it is.
C24_HungBackendBlocksOnlyItsRequests ==
    /\ [](\A c \in Connections : pc[c] \in BackendStages => lock # c)
    /\ \A c \in Connections : (pc[c] = "pick_wait") ~> (pc[c] = "connect")
    /\ \A c \in Connections : (pc[c] = "release_wait") ~> (pc[c] = "idle")
    /\ (admin.pc = "wait") ~> (admin.pc = "idle")
    /\ \A c \in Connections :
          (pc[c] \in BackendStages /\ worker_addr[c] # HungAddress)
             ~> (pc[c] = "release_wait")
    /\ [][\A c \in Connections :
             pc[c] = "send" /\ worker_addr[c] = HungAddress => pc'[c] = "send"]_vars

\* C24 witness: one request waits for the hung backend while another one
\* holds the lock for its release and a POST /algo waits for the lock
C24_ReleaseBesideHungRequest ==
    \E c, d \in Connections :
       /\ pc[c] = "send"
       /\ worker_addr[c] = HungAddress
       /\ pc[d] = "releasing"
       /\ lock = d
       /\ admin.pc = "wait"

\* C25: a pick is one critical section: while a task is between the grant of
\* the lock and the end of its pick nothing else changes the pool; the end of
\* the pick increments the counter of exactly one backend, the one whose
\* address it returns, by exactly one, and under round_robin moves the cursor
\* by one modulo N; so after k round-robin picks, however interleaved with
\* other requests, the cursor has advanced by k modulo N.
C25_PickIsAtomic ==
    [][/\ \A c \in Connections :
            pc[c] \in {"supervise", "select"} /\ pc'[c] = pc[c] => lb' = lb
       /\ \A c \in Connections :
            pc[c] = "select" /\ pc'[c] = "connect" =>
              \E i \in 1..Len(lb.servers) :
                 /\ worker_addr'[c] = get_address(lb.servers[i])
                 /\ \A j \in 1..Len(lb.servers) :
                      get_connections(lb'.servers[j]) =
                        get_connections(lb.servers[j]) + (IF j = i THEN 1 ELSE 0)
                 /\ lb.algorithm = RoundRobin =>
                      /\ i = lb.current_server + 1
                      /\ lb'.current_server = (lb.current_server + 1) % Len(lb.servers)
       /\ lb'.algorithm = RoundRobin =>
            lb'.current_server = (pin'.cursor + served') % Len(lb'.servers)]_vars

\* C25 witness: four round-robin picks of the two connections have wrapped
\* the cursor of the three backends to 1, one request still at the hung one
C25_FourPicksWrapped ==
    /\ lb.algorithm = RoundRobin
    /\ pin.cursor = 0
    /\ served = 4
    /\ lb.current_server = 1
    /\ \E c \in Connections : pc[c] = "send" /\ worker_addr[c] = HungAddress

====
